---- MODULE Spec2Model ----
(***************************************************************************)
(* The STL/OBJ processing pipeline of mediagoblin                          *)
(* (mediagoblin/media_types/stl/processing.py) run against one media       *)
(* entry.  One run of process_stl is stepped through its external effects  *)
(* (storage reads and writes, the renderer, the slicer, the estimator),    *)
(* each of which may fault.  The task that calls process_stl (sets the     *)
(* entry's state, owns the workbench) is not part of the sources at hand   *)
(* and is modelled from the specification.  GCodeEstimator.estimate is     *)
(* also taken on its own, line by line over small toolpaths                *)
(* (EstimatorSpec).                                                        *)
(*                                                                         *)
(* Names: the specification's queued_source_path, derived_files,           *)
(* media_metadata and processing_state are the entry's queued_media_file,  *)
(* media_files, media_data and state; its artifact name `toolpath` is the  *)
(* media_files key u'gcode'.                                               *)
(***************************************************************************)
EXTENDS Integers, Sequences, FiniteSets, TLC

VARIABLES
    pc,            \* position of the run
    entry,         \* the MediaEntry record
    queue_store,   \* mgg.queue_store: the file paths it holds
    public_store,  \* mgg.public_store: the file paths it holds
    workbench,     \* the run's Workbench: [exists, files]
    loc,           \* the local variables of process_stl
    calls,         \* history: the external calls made so far, in order
    exc,           \* the exception in flight out of process_stl, if any
    est,           \* GCodeEstimator objects at work: [gcode, runs]
    web,           \* a request to a view of user_pages on the entry
    fav            \* favorites: [user_favorites, favorites, next_id, requests]

vars == <<pc, entry, queue_store, public_store, workbench, loc, calls, exc, est, web, fav>>

----------------------------------------------------------------------------
(* Text.  A file name is a sequence of one-character strings.              *)

UpperCase == <<"A","B","C","D","E","F","G","H","I","J","K","L","M",
               "N","O","P","Q","R","S","T","U","V","W","X","Y","Z">>
LowerCase == <<"a","b","c","d","e","f","g","h","i","j","k","l","m",
               "n","o","p","q","r","s","t","u","v","w","x","y","z">>

LowerChar(c) ==
    IF \E i \in 1..Len(UpperCase) : UpperCase[i] = c
    THEN LowerCase[CHOOSE i \in 1..Len(UpperCase) : UpperCase[i] = c]
    ELSE c

\* str.lower()
Lower(s) == [i \in 1..Len(s) |-> LowerChar(s[i])]

\* str.strip(): leading and trailing blanks removed
RECURSIVE Strip(_)
Strip(s) ==
    IF s = <<>> THEN s
    ELSE IF Head(s) = " " THEN Strip(Tail(s))
    ELSE IF s[Len(s)] = " " THEN Strip(SubSeq(s, 1, Len(s) - 1))
    ELSE s

\* s[-4:]
Last4(s) == IF Len(s) <= 4 THEN s ELSE SubSeq(s, Len(s) - 3, Len(s))

\* Python's None, as a value no text equals
None == <<"None">>

\* ext = queued_filename.lower().strip()[-4:]; keep it without its dot when
\* it starts with one, else None
ExtOf(queued_filename) ==
    LET ext == Last4(Strip(Lower(queued_filename)))
    IN  IF ext # <<>> /\ ext[1] = "." THEN Tail(ext) ELSE None

\* index of the last "." of s, 0 when there is none
LastDot(s) ==
    IF \E i \in 1..Len(s) : s[i] = "."
    THEN CHOOSE i \in 1..Len(s) :
            s[i] = "." /\ \A j \in (i + 1)..Len(s) : s[j] # "."
    ELSE 0

\* FilenameBuilder: the source's stem and its extension (dot included,
\* lower-cased); os.path.splitext keeps a leading dot in the stem.
Basename(path) ==
    IF LastDot(path) > 1 THEN SubSeq(path, 1, LastDot(path) - 1) ELSE path
DotExt(path) ==
    IF LastDot(path) > 1
    THEN Lower(SubSeq(path, LastDot(path), Len(path)))
    ELSE <<>>

\* FilenameBuilder.fill: a template is a sequence of parts, "{basename}",
\* "{ext}" or literal text
RECURSIVE Fill(_, _)
Fill(path, template) ==
    IF template = <<>> THEN <<>>
    ELSE LET part == Head(template)
             text == IF part = <<"{basename}">> THEN Basename(path)
                     ELSE IF part = <<"{ext}">> THEN DotExt(path)
                     ELSE part
         IN  text \o Fill(path, Tail(template))

\* the top view written under the front view's name
TopTemplate_AsFront == << <<"{basename}">>, <<".","f","r","o","n","t",".","j","p","g">> >>

ThumbTemplate       == << <<"{basename}">>, <<".","t","h","u","m","b",".","j","p","g">> >>
PerspectiveTemplate == << <<"{basename}">>, <<".","p","e","r","s","p","e","c","t","i","v","e",".","j","p","g">> >>
TopTemplate         == << <<"{basename}">>, <<".","t","o","p",".","j","p","g">> >>
FrontTemplate       == << <<"{basename}">>, <<".","f","r","o","n","t",".","j","p","g">> >>
SideTemplate        == << <<"{basename}">>, <<".","s","i","d","e",".","j","p","g">> >>
GcodeTemplate       == << <<"{basename}">>, <<".","g","c","o","d","e">> >>
ModelTemplate       == << <<"{basename}">>, <<"{ext}">> >>

----------------------------------------------------------------------------
(* The preview batch: the five shots in the order process_stl takes them,  *)
(* each with the media_files key it is recorded under.                     *)

\* Shots with the front view taken before the top view
Shots_FrontBeforeTop ==
    << [key |-> "thumb",       template |-> ThumbTemplate,       project |-> "PERSP"],
       [key |-> "perspective", template |-> PerspectiveTemplate, project |-> "PERSP"],
       [key |-> "front",       template |-> FrontTemplate,       project |-> "ORTHO"],
       [key |-> "top",         template |-> TopTemplate,         project |-> "ORTHO"],
       [key |-> "side",        template |-> SideTemplate,        project |-> "ORTHO"] >>

Shots == << [key |-> "thumb",       template |-> ThumbTemplate,       project |-> "PERSP"],
            [key |-> "perspective", template |-> PerspectiveTemplate, project |-> "PERSP"],
            [key |-> "top",         template |-> TopTemplate,         project |-> "ORTHO"],
            [key |-> "front",       template |-> FrontTemplate,       project |-> "ORTHO"],
            [key |-> "side",        template |-> SideTemplate,        project |-> "ORTHO"] >>

PreviewKeys == {Shots[k].key : k \in 1..Len(Shots)}

----------------------------------------------------------------------------
(* Inputs.                                                                 *)

\* uploads the sniff handler accepts (extension stl or obj, any case)
QueuedFiles == { <<"a",".","s","t","l">>,
                 <<"B",".","O","B","J">>,
                 <<"c","d",".","o","b","j">> }

\* what the Geometry Loader returns
Models == { [width |-> 10, height |-> 10, depth |-> 10, average |-> <<5, 5, 5>>],
            [width |-> 4,  height |-> 20, depth |-> 2,  average |-> <<2, 10, 1>>] }

NoModel == [width |-> 0, height |-> 0, depth |-> 0, average |-> <<0, 0, 0>>]

Max2(a, b) == IF a >= b THEN a ELSE b

\* greatest = sorted([width, height, depth])[-1]
Greatest(model) == Max2(model.width, Max2(model.height, model.depth))

\* what the slicer leaves at its output path
ToolpathContents == {"absent", "empty", "moves", "garbage"}

\* the texts slicer() looks for in a line of the slicer's output (l.240-242)
FilamentRequired == <<"F","i","l","a","m","e","n","t"," ","r","e","q","u","i","r","e","d">>
RequiredColon == <<"r","e","q","u","i","r","e","d",":"," ">>
MmParen == <<"m","m"," ","(">>
Cm3Paren == <<"c","m","3",")">>

\* the line the slicer prints for a length L and a volume V
FilamentLine(L, V) ==
    FilamentRequired \o <<":"," ">> \o L \o MmParen \o V \o Cm3Paren \o <<"\n">>

\* the slicer's standard output, line by line: no matching line, one, two
\* with different values, and a matching line without the delimiters
OtherLine == <<"D","o","n","e",".","\n">>
Stdouts == { <<OtherLine>>,
             <<OtherLine, FilamentLine(<<"1","2","3",".","4","5">>, <<"4",".","5","6">>)>>,
             <<FilamentLine(<<"1","2","3",".","4","5">>, <<"4",".","5","6">>),
               OtherLine,
               FilamentLine(<<"7",".","0">>, <<"0",".","1">>)>>,
             <<FilamentRequired \o <<"\n">> >> }

ExitStatuses == {0, 1}

----------------------------------------------------------------------------
(* Helpers over the state.                                                 *)

\* one external call: what was called, on which file or text, the exit status
\* of its subprocess (-1: never launched; 0 where there is none) and whether
\* the step it belongs to went on (ok) or raised
Call(op, arg, status, ok) == [op |-> op, arg |-> arg, status |-> status, ok |-> ok]

\* the file of that name in the workbench directory, if any
WorkbenchFile(name) == {f \in workbench.files : f.name = name}

\* os.path.exists(path) for a workbench path
ExistsInWorkbench(name) == WorkbenchFile(name) # {}

\* an exception of that type leaves process_stl from step `at`
Raise(type, at) ==
    /\ pc' = "raised"
    /\ exc' = [type |-> type, at |-> at]

\* Python values of two types in one variable: the integer 0 and a text
PyInt0 == [type |-> "int", text |-> <<"0">>]
PyStr(text) == [type |-> "str", text |-> text]

\* str.rstrip(): trailing whitespace removed
RECURSIVE RStrip(_)
RStrip(s) ==
    IF s # <<>> /\ s[Len(s)] \in {" ", "\n", "\t", "\r"}
    THEN RStrip(SubSeq(s, 1, Len(s) - 1))
    ELSE s

\* str.find(sep) + 1: where sep first starts in s, 0 if nowhere
Find(s, sep) ==
    LET at == {i \in 1..(Len(s) - Len(sep) + 1) : SubSeq(s, i, i + Len(sep) - 1) = sep}
    IN  IF at = {} THEN 0 ELSE CHOOSE i \in at : \A j \in at : i <= j

\* sub in s
Contains(sub, s) == Find(s, sub) # 0

\* str.split(sep): the pieces of s between the occurrences of sep
RECURSIVE Split(_, _)
Split(s, sep) ==
    LET i == Find(s, sep)
    IN  IF i = 0 THEN <<s>>
        ELSE <<SubSeq(s, 1, i - 1)>> \o Split(SubSeq(s, i + Len(sep), Len(s)), sep)

\* SlicerParse without the second split of l.242: the volume keeps what
\* follows it in the line
RECURSIVE SlicerParse_KeepsUnit(_, _)
SlicerParse_KeepsUnit(stdout, acc) ==
    IF stdout = <<>> \/ acc.raised THEN acc
    ELSE LET line == RStrip(Head(stdout))
             length == Split(line, RequiredColon)
             volume == Split(line, MmParen)
         IN  SlicerParse_KeepsUnit(Tail(stdout),
                 IF ~Contains(FilamentRequired, line) THEN acc
                 ELSE IF Len(length) < 2 \/ Len(volume) < 2
                      THEN [acc EXCEPT !.raised = TRUE]
                      ELSE [raised |-> FALSE,
                            filament_length |-> PyStr(Split(length[2], MmParen)[1]),
                            plastic_volume  |-> PyStr(volume[2])])

\* slicer(): the loop over the subprocess's standard output (l.237-244):
\* every line holding "Filament required" assigns both results; indexing a
\* split that found no delimiter raises IndexError out of slicer()
RECURSIVE SlicerParse(_, _)
SlicerParse(stdout, acc) ==
    IF stdout = <<>> \/ acc.raised THEN acc
    ELSE LET line == RStrip(Head(stdout))
             length == Split(line, RequiredColon)
             volume == Split(line, MmParen)
         IN  SlicerParse(Tail(stdout),
                 IF ~Contains(FilamentRequired, line) THEN acc
                 ELSE IF Len(length) < 2 \/ Len(volume) < 2
                      THEN [acc EXCEPT !.raised = TRUE]
                      ELSE [raised |-> FALSE,
                            filament_length |-> PyStr(Split(length[2], MmParen)[1]),
                            plastic_volume  |-> PyStr(Split(volume[2], Cm3Paren)[1])])

SlicerResult(stdout) ==
    SlicerParse(stdout, [raised |-> FALSE,
                         filament_length |-> PyInt0, plastic_volume |-> PyInt0])

\* slicer()'s result for each of the outputs
SlicerResults == [stdout \in Stdouts |-> SlicerResult(stdout)]

----------------------------------------------------------------------------
(* GCodeEstimator.estimate (l.95-160).  A line of G-code is the sequence   *)
(* of its words, a word a letter and a number; Python's floats are exact   *)
(* fractions here, and math.sqrt is taken to 1/SqrtScale.                  *)

RECURSIVE GCD(_, _)
GCD(a, b) == IF b = 0 THEN a ELSE GCD(b, a % b)

Abs(a) == IF a < 0 THEN -a ELSE a

\* the fraction n/d in lowest terms, d > 0
RNorm(n, d) ==
    LET g == GCD(Abs(n), Abs(d))
        sign == IF d < 0 THEN -1 ELSE 1
    IN  [n |-> sign * (n \div g), d |-> sign * (d \div g)]

R(n) == [n |-> n, d |-> 1]

RAdd(a, b) ==
    LET l == (a.d \div GCD(a.d, b.d)) * b.d
    IN  RNorm(a.n * (l \div a.d) + b.n * (l \div b.d), l)

RNeg(a) == [n |-> -a.n, d |-> a.d]
RSub(a, b) == RAdd(a, RNeg(b))
RMul(a, b) ==
    LET g1 == GCD(Abs(a.n), b.d)
        g2 == GCD(Abs(b.n), a.d)
    IN  RNorm((a.n \div g1) * (b.n \div g2), (a.d \div g2) * (b.d \div g1))
RDiv(a, b) == RMul(a, RNorm(b.d, b.n))
RLe(a, b) == a.n * b.d <= b.n * a.d
RLt(a, b) == a.n * b.d < b.n * a.d

\* Python's None where a float may stand
RNone == [n |-> 0, d |-> 0]

\* the largest r with r * r <= n, by bisection between lo and hi
RECURSIVE ISqrtBetween(_, _, _)
ISqrtBetween(n, lo, hi) ==
    IF hi - lo <= 1 THEN lo
    ELSE LET mid == (lo + hi) \div 2
         IN  IF mid * mid <= n THEN ISqrtBetween(n, mid, hi)
             ELSE ISqrtBetween(n, lo, mid)

ISqrt(n) == ISqrtBetween(n, 0, IF n < 46340 THEN n + 1 ELSE 46341)

\* math.sqrt is taken to this many parts of a unit
SqrtScale == 100

\* math.sqrt(q) for q >= 0
RSqrt(q) == RNorm(ISqrt(q.n * q.d * SqrtScale * SqrtScale), q.d * SqrtScale)

\* math.hypot(a, b)
Hypot(a, b) == RSqrt(RAdd(RMul(a, a), RMul(b, b)))

\* hypot3d (l.92-93)
hypot3d(X1, Y1, Z1, X2, Y2, Z2) ==
    Hypot(RSub(X2, X1), Hypot(RSub(Y2, Y1), RSub(Z2, Z1)))

\* an acceleration of twice the firmware's default
acceleration_Doubled == R(3000)

\* l.102
acceleration == R(1500)

\* one word of a line, "X10" or "G1"; the word ";" opens a comment
Word(letter, value) == [letter |-> letter, value |-> value]

\* i.split(";")[0] (l.111): the words before the comment
RECURSIVE StripComment(_)
StripComment(i) ==
    IF i = <<>> \/ Head(i).letter = ";" THEN <<>>
    ELSE <<Head(i)>> \o StripComment(Tail(i))

\* "G1" in i, "G4" in i (l.112-113, l.120): the text occurs in the line, as
\* it does in the words G1, G10..G19 and G100..G199
HasCode(i, number) ==
    \E k \in 1..Len(i) :
        /\ i[k].letter = "G"
        /\ number \in {i[k].value, i[k].value \div 10, i[k].value \div 100}

\* get_coordinate_value (l.86-90): the number of the first word holding the
\* axis letter, None if there is none
get_coordinate_value(axis, parts) ==
    LET at == {k \in 1..Len(parts) : parts[k].letter = axis}
    IN  IF at = {} THEN RNone
        ELSE R(parts[CHOOSE k \in at : \A j \in at : k <= j].value)

\* the locals of estimate() before the loop (l.96-105) and the position in
\* self.gcode
EstimateStart ==
    [lastx |-> R(0), lasty |-> R(0), lastz |-> R(0), laste |-> R(0), lastf |-> R(0),
     x |-> R(0), y |-> R(0), z |-> R(0), e |-> R(0), f |-> R(0),
     moveduration |-> R(0), totalduration |-> R(0),
     layerbeginduration |-> R(0), layercount |-> 0,
     next |-> 1, status |-> "running"]

\* l.120-143: a G1 line sets the target, the feed rate and the move's duration;
\* math.sqrt of a negative number raises ValueError
G1Move(st, i) ==
    LET parts == Tail(i)
        orLast(v, last) == IF v = RNone THEN last ELSE v
        x == orLast(get_coordinate_value("X", parts), st.lastx)
        y == orLast(get_coordinate_value("Y", parts), st.lasty)
        z == orLast(get_coordinate_value("Z", parts), st.lastz)
        e == orLast(get_coordinate_value("E", parts), st.laste)
        F == get_coordinate_value("F", parts)
        f == IF F = RNone THEN st.lastf ELSE RDiv(F, R(60))
        currenttravel == hypot3d(x, y, z, st.lastx, st.lasty, st.lastz)
        distance == RDiv(RMul(R(2), RMul(RMul(RAdd(st.lastf, f), RSub(f, st.lastf)),
                                         RNorm(1, 2))),
                         acceleration)
        root == RDiv(RMul(R(2), distance), acceleration)
        moved == [st EXCEPT !.x = x, !.y = y, !.z = z, !.e = e, !.f = f]
    IN  IF RLe(distance, currenttravel) /\ RAdd(st.lastf, f) # R(0) /\ f # R(0)
        THEN [moved EXCEPT !.moveduration =
                 RAdd(RDiv(RMul(R(2), distance), RAdd(st.lastf, f)),
                      RDiv(RSub(currenttravel, distance), f))]
        ELSE IF root.n < 0
             THEN [moved EXCEPT !.status = "raised"]
             ELSE [moved EXCEPT !.moveduration = RSqrt(root)]

\* Tally with z >= lastz for z > lastz at l.149: a line that keeps z opens a
\* layer too
Tally_NotLower(st) ==
    LET totalduration == RAdd(st.totalduration, st.moveduration)
        rises == RLe(st.lastz, st.z)
    IN  [st EXCEPT !.totalduration = totalduration,
                   !.layercount = IF rises THEN @ + 1 ELSE @,
                   !.layerbeginduration = IF rises THEN totalduration ELSE @,
                   !.lastx = st.x, !.lasty = st.y, !.lastz = st.z,
                   !.laste = st.e, !.lastf = st.f,
                   !.next = @ + 1]

\* l.147-158: the duration is added, a rise of z opens a layer, the current
\* position becomes the last one
Tally(st) ==
    LET totalduration == RAdd(st.totalduration, st.moveduration)
        rises == RLt(st.lastz, st.z)
    IN  [st EXCEPT !.totalduration = totalduration,
                   !.layercount = IF rises THEN @ + 1 ELSE @,
                   !.layerbeginduration = IF rises THEN totalduration ELSE @,
                   !.lastx = st.x, !.lasty = st.y, !.lastz = st.z,
                   !.laste = st.e, !.lastf = st.f,
                   !.next = @ + 1]

\* EstimateLine without the division of l.119: P is taken as seconds
EstimateLine_DwellSeconds(st, line) ==
    LET i == StripComment(line)
        P == get_coordinate_value("P", Tail(i))
    IN  IF ~(HasCode(i, 4) \/ HasCode(i, 1))
        THEN [st EXCEPT !.next = @ + 1]
        ELSE IF HasCode(i, 4) /\ P = RNone
        THEN [st EXCEPT !.moveduration = RNone, !.next = @ + 1]
        ELSE LET dwelt == IF HasCode(i, 4)
                          THEN [st EXCEPT !.moveduration = P]
                          ELSE st
                 moved == IF HasCode(i, 1) THEN G1Move(dwelt, i) ELSE dwelt
             IN  IF moved.status = "raised" THEN moved ELSE Tally(moved)

\* l.110-158: one turn of the loop, on the line `line` of self.gcode
EstimateLine(st, line) ==
    LET i == StripComment(line)
        P == get_coordinate_value("P", Tail(i))
    IN  IF ~(HasCode(i, 4) \/ HasCode(i, 1))
        THEN [st EXCEPT !.next = @ + 1]
        ELSE IF HasCode(i, 4) /\ P = RNone
        THEN \* l.116-117: continue
             [st EXCEPT !.moveduration = RNone, !.next = @ + 1]
        ELSE LET dwelt == IF HasCode(i, 4)
                          THEN [st EXCEPT !.moveduration = RDiv(P, R(1000))]
                          ELSE st
                 moved == IF HasCode(i, 1) THEN G1Move(dwelt, i) ELSE dwelt
             IN  IF moved.status = "raised" THEN moved ELSE Tally(moved)

\* estimate() run to its end on a toolpath
RECURSIVE EstimateFrom(_, _)
EstimateFrom(st, gcode) ==
    IF st.status = "raised" THEN st
    ELSE IF st.next > Len(gcode) THEN [st EXCEPT !.status = "returned"]
    ELSE EstimateFrom(EstimateLine(st, gcode[st.next]), gcode)

estimate(gcode) == EstimateFrom(EstimateStart, gcode)

\* the lines the toolpaths are made of: moves that raise, keep and lower z,
\* with and without a feed rate, a comment, dwells with and without P, and a
\* line that is neither a move nor a dwell
GcodeLines ==
    { <<Word("G", 1), Word("Z", 1), Word("F", 600)>>,
      <<Word("G", 1), Word("Z", 2)>>,
      <<Word("G", 1), Word("X", 10), Word(";", 0), Word("Z", 9)>>,
      <<Word("G", 1), Word("X", 10), Word("F", 600)>>,
      <<Word("G", 1), Word("X", 3), Word("Y", 4)>>,
      <<Word("G", 1), Word("F", 1200)>>,
      <<Word("G", 1), Word("F", 0)>>,
      <<Word("G", 4), Word("P", 500)>>,
      <<Word("G", 4), Word("S", 2)>>,
      <<Word("G", 92), Word("E", 0)>> }

\* the longest toolpath estimated
MaxGcodeLen == 3

Gcodes == UNION {[1..n -> GcodeLines] : n \in 0..MaxGcodeLen}

\* the lines of a toolpath file by its content: two layers, or nothing
GcodeOf(content) ==
    IF content = "moves"
    THEN << <<Word("G", 1), Word("Z", 1), Word("F", 600)>>,
            <<Word("G", 1), Word("X", 10), Word(";", 0), Word("Z", 9)>>,
            <<Word("G", 4), Word("P", 500)>>,
            <<Word("G", 1), Word("Z", 2)>> >>
    ELSE <<>>

\* GCodeEstimator(output_file).estimate() by the content of the file:
\* (layer_count, total_duration); a file without moves gives (0, 0.0)
EstimateOf(content) ==
    [layer_count |-> estimate(GcodeOf(content)).layercount,
     total_duration |-> estimate(GcodeOf(content)).totalduration]

\* the estimate for each content of the toolpath file that can be read
Estimates == [content \in {"empty", "moves"} |-> EstimateOf(content)]

\* two estimators side by side on the same toolpath
EstimatorRuns == {"first", "second"}

----------------------------------------------------------------------------
(* Initial state: an uploaded entry, unprocessed, its file in the queue.   *)

InitLoc ==
    [queued_filepath |-> <<>>, queued_filename |-> <<>>, ext |-> None,
     model |-> NoModel, greatest |-> 0,
     blender_thumbs |-> TRUE, shot |-> 0, paths |-> {},
     output_file |-> <<>>, stdout |-> <<>>,
     filament_length |-> PyInt0, plastic_volume |-> PyInt0,
     layer_count |-> 0, total_duration |-> R(0),
     gcode_filepath |-> <<>>, model_filepath |-> <<>>]

\* the entry of an upload f before its run, and the run's variables
Unprocessed(f) ==
    /\ pc = "idle"
    /\ entry = [state |-> "unprocessed",
                queued_media_file |-> f,
                media_files |-> {},
                media_data |-> {},
                fail_error |-> "",
                fail_metadata |-> "",
                title |-> "model"]
    /\ queue_store = {f}
    /\ public_store = {}
    /\ workbench = [exists |-> FALSE, files |-> {}]
    /\ loc = InitLoc
    /\ calls = <<>>
    /\ exc = [type |-> "", at |-> ""]

\* a second estimator that keeps the feed rate of an earlier run instead of
\* starting from rest
Estimators_Warm(gcode) ==
    [gcode |-> gcode,
     runs |-> [r \in EstimatorRuns |->
                 IF r = "second" THEN [EstimateStart EXCEPT !.lastf = R(10)]
                 ELSE EstimateStart]]

\* GCodeEstimator(filename) for each of the estimators (l.70-71): the lines of
\* the toolpath are read, estimate() has yet to start
Estimators(gcode) ==
    [gcode |-> gcode, runs |-> [r \in EstimatorRuns |-> EstimateStart]]

\* no request to a view is under way; the entry is in the database
NoRequest ==
    [method |-> "", valid |-> FALSE, confirm |-> FALSE,
     pc |-> "none", todo |-> {}, in_db |-> TRUE, response |-> ""]

\* nobody has marked the entry as a favorite, no request to media_favorite is
\* under way; favorites is the entry's counter (db/models.py l.216-219: 0)
NoFavorites ==
    [user_favorites |-> {}, favorites |-> 0, next_id |-> 1, requests |-> <<>>]

Init ==
    \E f \in QueuedFiles :
        /\ Unprocessed(f)
        /\ est = Estimators(<<>>)
        /\ web = NoRequest
        /\ fav = NoFavorites

----------------------------------------------------------------------------
(* The task around process_stl.                                            *)

\* the run starts: the entry goes to processing, the workbench is acquired
TaskStart ==
    /\ UNCHANGED <<est, web, fav>>
    /\ pc = "idle"
    /\ entry.state = "unprocessed"
    /\ entry' = [entry EXCEPT !.state = "processing"]
    /\ workbench' = [exists |-> TRUE, files |-> {}]
    /\ pc' = "localize"
    /\ UNCHANGED <<queue_store, public_store, loc, calls, exc>>

----------------------------------------------------------------------------
(* process_stl, step by step.                                              *)

\* l.252-264: the queued file is localized into the workbench and the
\* extension derived from its name
Localize ==
    /\ UNCHANGED <<est, web, fav>>
    /\ pc = "localize"
    /\ LET queued_filepath == entry.queued_media_file
       IN  \/ /\ queued_filepath \in queue_store
              /\ workbench' = [workbench EXCEPT !.files =
                                  @ \cup {[name |-> queued_filepath, content |-> "source"]}]
              /\ loc' = [loc EXCEPT !.queued_filepath = queued_filepath,
                                    !.queued_filename = queued_filepath,
                                    !.ext = ExtOf(queued_filepath)]
              /\ calls' = Append(calls, Call("localize", queued_filepath, 0, TRUE))
              /\ pc' = "load"
              /\ UNCHANGED exc
           \/ /\ Raise("IOError", "localized_file")
              /\ calls' = Append(calls, Call("localize", queued_filepath, 0, FALSE))
              /\ UNCHANGED <<workbench, loc>>
    /\ UNCHANGED <<entry, queue_store, public_store>>

\* LoadModel with the loader's exception swallowed: the run goes on to the
\* previews without a model
LoadModel_Swallow ==
    /\ UNCHANGED <<est, web, fav>>
    /\ pc = "load"
    /\ \/ \E model \in Models :
              /\ calls' = Append(calls, Call("auto_detect", loc.ext, 0, TRUE))
              /\ loc' = [loc EXCEPT !.model = model,
                                    !.greatest = Greatest(model),
                                    !.blender_thumbs = TRUE,
                                    !.shot = 1]
       \/ /\ calls' = Append(calls, Call("auto_detect", loc.ext, 0, FALSE))
          /\ loc' = [loc EXCEPT !.blender_thumbs = TRUE, !.shot = 1]
    /\ pc' = "snap"
    /\ UNCHANGED <<entry, queue_store, public_store, workbench, exc>>

\* l.266-274, 327: the Geometry Loader parses the model or raises
LoadModel ==
    /\ UNCHANGED <<est, web, fav>>
    /\ pc = "load"
    /\ \/ \E model \in Models :
              /\ calls' = Append(calls, Call("auto_detect", loc.ext, 0, TRUE))
              /\ loc' = [loc EXCEPT !.model = model,
                                    !.greatest = Greatest(model),
                                    !.blender_thumbs = TRUE,
                                    !.shot = 1]
              /\ pc' = "snap"
              /\ UNCHANGED exc
       \/ /\ calls' = Append(calls, Call("auto_detect", loc.ext, 0, FALSE))
          /\ Raise("ThreeDeeParseError", "auto_detect")
          /\ UNCHANGED loc
    /\ UNCHANGED <<entry, queue_store, public_store, workbench>>

\* BatchFailed without the bare except: the shot's exception leaves
\* process_stl
BatchFailed_Abort ==
    /\ loc' = loc
    /\ pc' = "raised"

\* BatchFailed with the try around each shot instead of around the batch:
\* the shots after the one that raised are still taken
BatchFailed_NextShot ==
    /\ loc' = [loc EXCEPT !.blender_thumbs = FALSE, !.shot = @ + 1]
    /\ pc' = IF loc.shot = Len(Shots) THEN "slice" ELSE "snap"

\* the bare except of l.351-353: the batch is given up, the run goes on
BatchFailed ==
    /\ loc' = [loc EXCEPT !.blender_thumbs = FALSE]
    /\ pc' = "slice"

\* Snap with the renderer's exit status trusted: a shot whose subprocess ends
\* with a non-zero status raises although its output file is there
Snap_TrustStatus(k) ==
    /\ UNCHANGED <<est, web, fav>>
    /\ pc = "snap"
    /\ loc.shot = k
    /\ LET filename == Fill(loc.queued_filename, Shots[k].template)
       IN  \E launched \in BOOLEAN, status \in ExitStatuses,
              rendered \in BOOLEAN, stored \in BOOLEAN :
              IF ~launched
              THEN \* subprocess.call raises: no renderer to run
                   /\ calls' = Append(calls, Call("render", filename, -1, FALSE))
                   /\ BatchFailed
                   /\ UNCHANGED <<workbench, public_store>>
              ELSE /\ workbench' = [workbench EXCEPT !.files =
                                      IF rendered
                                      THEN @ \cup {[name |-> filename, content |-> "image"]}
                                      ELSE @]
                   /\ IF ~rendered \/ status # 0
                      THEN \* no output file, or the renderer reported a failure
                           /\ calls' = Append(calls, Call("render", filename, status, FALSE))
                           /\ BatchFailed
                           /\ UNCHANGED public_store
                      ELSE IF ~stored
                      THEN \* the write to public storage raises
                           /\ calls' = calls \o <<Call("render", filename, status, TRUE),
                                                  Call("put", filename, 0, FALSE)>>
                           /\ BatchFailed
                           /\ UNCHANGED public_store
                      ELSE /\ calls' = calls \o <<Call("render", filename, status, TRUE),
                                                  Call("put", filename, 0, TRUE)>>
                           /\ public_store' = public_store \cup {filename}
                           /\ loc' = [loc EXCEPT
                                        !.paths = @ \cup {[key |-> Shots[k].key,
                                                           path |-> filename]},
                                        !.shot = k + 1]
                           /\ pc' = IF k = Len(Shots) THEN "slice" ELSE "snap"
    /\ UNCHANGED <<entry, queue_store, exc>>

\* l.298-325 for shot k of l.328-350: render, check the output file exists,
\* copy it to public storage, keep its path
Snap(k) ==
    /\ UNCHANGED <<est, web, fav>>
    /\ pc = "snap"
    /\ loc.shot = k
    /\ LET filename == Fill(loc.queued_filename, Shots[k].template)
       IN  \E launched \in BOOLEAN, status \in ExitStatuses,
              rendered \in BOOLEAN, stored \in BOOLEAN :
              IF ~launched
              THEN \* subprocess.call raises: no renderer to run
                   /\ calls' = Append(calls, Call("render", filename, -1, FALSE))
                   /\ BatchFailed
                   /\ UNCHANGED <<workbench, public_store>>
              ELSE /\ workbench' = [workbench EXCEPT !.files =
                                      IF rendered
                                      THEN @ \cup {[name |-> filename, content |-> "image"]}
                                      ELSE @]
                   /\ IF ~rendered
                      THEN \* assert os.path.exists(workbench_path) fails
                           /\ calls' = Append(calls, Call("render", filename, status, FALSE))
                           /\ BatchFailed
                           /\ UNCHANGED public_store
                      ELSE IF ~stored
                      THEN \* the write to public storage raises
                           /\ calls' = calls \o <<Call("render", filename, status, TRUE),
                                                  Call("put", filename, 0, FALSE)>>
                           /\ BatchFailed
                           /\ UNCHANGED public_store
                      ELSE /\ calls' = calls \o <<Call("render", filename, status, TRUE),
                                                  Call("put", filename, 0, TRUE)>>
                           /\ public_store' = public_store \cup {filename}
                           /\ loc' = [loc EXCEPT
                                        !.paths = @ \cup {[key |-> Shots[k].key,
                                                           path |-> filename]},
                                        !.shot = k + 1]
                           /\ pc' = IF k = Len(Shots) THEN "slice" ELSE "snap"
    /\ UNCHANGED <<entry, queue_store, exc>>

\* generate_gcode l.280-283: the slicer runs on the local source
Slice ==
    /\ UNCHANGED <<est, web, fav>>
    /\ pc = "slice"
    /\ LET filename == Fill(loc.queued_filename, GcodeTemplate)
       IN  \E launched \in BOOLEAN, status \in ExitStatuses,
              content \in ToolpathContents, stdout \in Stdouts :
              IF ~launched
              THEN \* subprocess.Popen raises: no slicer to run
                   /\ calls' = Append(calls, Call("slicer", filename, -1, FALSE))
                   /\ Raise("OSError", "slicer")
                   /\ UNCHANGED <<workbench, loc>>
              ELSE /\ workbench' = [workbench EXCEPT !.files =
                                      IF content # "absent"
                                      THEN @ \cup {[name |-> filename, content |-> content]}
                                      ELSE @]
                   /\ IF SlicerResults[stdout].raised
                      THEN \* l.241-242: a matching line without its delimiters
                           /\ calls' = Append(calls, Call("slicer", filename, status, FALSE))
                           /\ loc' = [loc EXCEPT !.stdout = stdout]
                           /\ Raise("IndexError", "slicer")
                      ELSE /\ calls' = Append(calls, Call("slicer", filename, status, TRUE))
                           /\ loc' = [loc EXCEPT
                                !.output_file = filename,
                                !.stdout = stdout,
                                !.filament_length = SlicerResults[stdout].filament_length,
                                !.plastic_volume = SlicerResults[stdout].plastic_volume]
                           /\ pc' = "estimate"
                           /\ UNCHANGED exc
    /\ UNCHANGED <<entry, queue_store, public_store>>

\* generate_gcode l.284: the estimator opens the toolpath and times it
Estimate ==
    /\ UNCHANGED <<est, web, fav>>
    /\ pc = "estimate"
    /\ IF ~ExistsInWorkbench(loc.output_file)
       THEN \* open(filename) raises
            /\ calls' = Append(calls, Call("estimate", loc.output_file, 0, FALSE))
            /\ Raise("IOError", "GCodeEstimator")
            /\ UNCHANGED loc
       ELSE LET content == (CHOOSE f \in WorkbenchFile(loc.output_file) : TRUE).content
            IN  IF content = "garbage"
                THEN \* float() of a malformed parameter raises
                     /\ calls' = Append(calls, Call("estimate", loc.output_file, 0, FALSE))
                     /\ Raise("ValueError", "GCodeEstimator")
                     /\ UNCHANGED loc
                ELSE /\ calls' = Append(calls, Call("estimate", loc.output_file, 0, TRUE))
                     /\ loc' = [loc EXCEPT
                                  !.layer_count = Estimates[content].layer_count,
                                  !.total_duration = Estimates[content].total_duration]
                     /\ pc' = "copy_gcode"
                     /\ UNCHANGED exc
    /\ UNCHANGED <<entry, queue_store, public_store, workbench>>

\* CopyGcode with the failure of the write swallowed: the run goes on as if
\* the toolpath had been stored
CopyGcode_Swallow ==
    /\ UNCHANGED <<est, web, fav>>
    /\ pc = "copy_gcode"
    /\ ExistsInWorkbench(loc.output_file)
    /\ \E stored \in BOOLEAN :
          /\ public_store' = IF stored THEN public_store \cup {loc.output_file}
                             ELSE public_store
          /\ calls' = Append(calls, Call("put", loc.output_file, 0, stored))
    /\ loc' = [loc EXCEPT !.gcode_filepath = loc.output_file]
    /\ pc' = "copy_original"
    /\ UNCHANGED <<entry, queue_store, workbench, exc>>

\* generate_gcode l.286-296, l.355: the toolpath is copied to public storage
CopyGcode ==
    /\ UNCHANGED <<est, web, fav>>
    /\ pc = "copy_gcode"
    /\ IF ~ExistsInWorkbench(loc.output_file)
       THEN \* assert os.path.exists(output_file) fails
            /\ Raise("AssertionError", "generate_gcode")
            /\ UNCHANGED <<public_store, loc, calls>>
       ELSE \E stored \in BOOLEAN :
              IF stored
              THEN /\ public_store' = public_store \cup {loc.output_file}
                   /\ calls' = Append(calls, Call("put", loc.output_file, 0, TRUE))
                   /\ loc' = [loc EXCEPT !.gcode_filepath = loc.output_file]
                   /\ pc' = "copy_original"
                   /\ UNCHANGED exc
              ELSE /\ calls' = Append(calls, Call("put", loc.output_file, 0, FALSE))
                   /\ Raise("IOError", "public_store")
                   /\ UNCHANGED <<public_store, loc>>
    /\ UNCHANGED <<entry, queue_store, workbench>>

\* CopyOriginal with the failure of the write swallowed: the run goes on to
\* delete the queued file
CopyOriginal_Swallow ==
    /\ UNCHANGED <<est, web, fav>>
    /\ pc = "copy_original"
    /\ LET model_filepath == Fill(loc.queued_filename, ModelTemplate)
       IN  /\ \E stored \in BOOLEAN :
                /\ public_store' = IF stored THEN public_store \cup {model_filepath}
                                   ELSE public_store
                /\ calls' = Append(calls, Call("put", model_filepath, 0, stored))
           /\ loc' = [loc EXCEPT !.model_filepath = model_filepath]
    /\ pc' = "delete_queued"
    /\ UNCHANGED <<entry, queue_store, workbench, exc>>

\* l.357-363: the original is copied to public storage
CopyOriginal ==
    /\ UNCHANGED <<est, web, fav>>
    /\ pc = "copy_original"
    /\ LET model_filepath == Fill(loc.queued_filename, ModelTemplate)
       IN  \E stored \in BOOLEAN :
              IF stored
              THEN /\ public_store' = public_store \cup {model_filepath}
                   /\ calls' = Append(calls, Call("put", model_filepath, 0, TRUE))
                   /\ loc' = [loc EXCEPT !.model_filepath = model_filepath]
                   /\ pc' = "delete_queued"
                   /\ UNCHANGED exc
              ELSE /\ calls' = Append(calls, Call("put", model_filepath, 0, FALSE))
                   /\ Raise("IOError", "public_store")
                   /\ UNCHANGED <<public_store, loc>>
    /\ UNCHANGED <<entry, queue_store, workbench>>

\* DeleteQueued with l.367 run before the deletion is known to have worked
\* and kept apart from l.371: the reference is cleared first
DeleteQueued_ClearsRef ==
    /\ UNCHANGED <<est, web, fav>>
    /\ pc = "delete_queued"
    /\ entry' = [entry EXCEPT !.queued_media_file = <<>>]
    /\ \E deleted \in BOOLEAN :
          IF deleted
          THEN /\ queue_store' = queue_store \ {loc.queued_filepath}
               /\ calls' = Append(calls, Call("delete", loc.queued_filepath, 0, TRUE))
               /\ pc' = "record_files"
               /\ UNCHANGED exc
          ELSE /\ calls' = Append(calls, Call("delete", loc.queued_filepath, 0, FALSE))
               /\ Raise("IOError", "queue_store")
               /\ UNCHANGED queue_store
    /\ UNCHANGED <<public_store, workbench, loc>>

\* l.365-366: the queued file is deleted from the queue store
DeleteQueued ==
    /\ UNCHANGED <<est, web, fav>>
    /\ pc = "delete_queued"
    /\ \E deleted \in BOOLEAN :
          IF deleted
          THEN /\ queue_store' = queue_store \ {loc.queued_filepath}
               /\ calls' = Append(calls, Call("delete", loc.queued_filepath, 0, TRUE))
               /\ pc' = "record_files"
               /\ UNCHANGED exc
          ELSE /\ calls' = Append(calls, Call("delete", loc.queued_filepath, 0, FALSE))
               /\ Raise("IOError", "queue_store")
               /\ UNCHANGED queue_store
    /\ UNCHANGED <<entry, public_store, workbench, loc>>

\* RecordFiles without l.367: the entry keeps its queued_media_file
RecordFiles_KeepRef ==
    /\ UNCHANGED <<est, web, fav>>
    /\ pc = "record_files"
    /\ LET keep(files, keys) == {m \in files : m.key \notin keys}
           base == {[key |-> "original", path |-> loc.model_filepath],
                    [key |-> "gcode",    path |-> loc.gcode_filepath]}
           previews == IF loc.blender_thumbs THEN loc.paths ELSE {}
           new == base \cup previews
       IN  entry' = [entry EXCEPT !.media_files =
                        keep(@, {m.key : m \in new}) \cup new]
    /\ pc' = "media_data"
    /\ UNCHANGED <<queue_store, public_store, workbench, loc, calls, exc>>

\* RecordFiles without the test of l.373: the previews that were stored are
\* recorded whether or not the batch went through
RecordFiles_Partial ==
    /\ UNCHANGED <<est, web, fav>>
    /\ pc = "record_files"
    /\ entry' = [entry EXCEPT !.queued_media_file = <<>>,
                              !.media_files =
                    {[key |-> "original", path |-> loc.model_filepath],
                     [key |-> "gcode",    path |-> loc.gcode_filepath]}
                    \cup loc.paths]
    /\ pc' = "media_data"
    /\ UNCHANGED <<queue_store, public_store, workbench, loc, calls, exc>>

\* l.367-378: the assignments to the entry that follow the deletion, none of
\* which calls out of process_stl: the reference to the queued file is cleared
\* and the artifact paths are put into media_files
RecordFiles ==
    /\ UNCHANGED <<est, web, fav>>
    /\ pc = "record_files"
    /\ LET keep(files, keys) == {m \in files : m.key \notin keys}
           base == {[key |-> "original", path |-> loc.model_filepath],
                    [key |-> "gcode",    path |-> loc.gcode_filepath]}
           previews == IF loc.blender_thumbs THEN loc.paths ELSE {}
           new == base \cup previews
       IN  entry' = [entry EXCEPT !.queued_media_file = <<>>,
                                 !.media_files =
                        keep(@, {m.key : m \in new}) \cup new]
    /\ pc' = "media_data"
    /\ UNCHANGED <<queue_store, public_store, workbench, loc, calls, exc>>

\* MediaDataInit without the call of l.395: process_stl returns with no
\* metadata written
MediaDataInit_Skip ==
    /\ UNCHANGED <<est, web, fav>>
    /\ pc = "media_data"
    /\ calls' = Append(calls, Call("media_data_init", <<>>, 0, TRUE))
    /\ pc' = "returned"
    /\ UNCHANGED <<entry, queue_store, public_store, workbench, loc, exc>>

\* MediaDataInit with the dimensions put on the entry itself instead of into
\* media_data: the entry gets a field of its own for the file type
MediaDataInit_IntoEntry ==
    /\ UNCHANGED <<est, web, fav>>
    /\ pc = "media_data"
    /\ entry' = [file_type |-> loc.ext] @@ entry
    /\ calls' = Append(calls, Call("media_data_init", <<>>, 0, TRUE))
    /\ pc' = "returned"
    /\ UNCHANGED <<queue_store, public_store, workbench, loc, exc>>

\* l.380-395: the metadata is written into media_data
MediaDataInit ==
    /\ UNCHANGED <<est, web, fav>>
    /\ pc = "media_data"
    /\ \E saved \in BOOLEAN :
          IF saved
          THEN /\ entry' = [entry EXCEPT !.media_data =
                    {[center_x |-> loc.model.average[1],
                      center_y |-> loc.model.average[2],
                      center_z |-> loc.model.average[3],
                      width |-> loc.model.width,
                      height |-> loc.model.height,
                      depth |-> loc.model.depth,
                      filament_length |-> loc.filament_length,
                      plastic_volume |-> loc.plastic_volume,
                      layer_count |-> loc.layer_count,
                      total_duration |-> loc.total_duration,
                      file_type |-> loc.ext,
                      blender_thumbs |-> loc.blender_thumbs]}]
               /\ calls' = Append(calls, Call("media_data_init", <<>>, 0, TRUE))
               /\ pc' = "returned"
               /\ UNCHANGED exc
          ELSE /\ calls' = Append(calls, Call("media_data_init", <<>>, 0, FALSE))
               /\ Raise("Exception", "media_data_init")
               /\ UNCHANGED entry
    /\ UNCHANGED <<queue_store, public_store, workbench, loc>>

----------------------------------------------------------------------------
(* The task around process_stl, at its end.                                *)

\* the workbench directory is deleted with all it holds
Release == [exists |-> FALSE, files |-> {}]

\* the error kind recorded for an exception, by the step it came from
FailKind(e) ==
    IF e.at = "auto_detect" THEN "GeometryLoadFailed"
    ELSE IF e.at \in {"slicer", "GCodeEstimator"} THEN "SlicingFailed"
    ELSE IF e.at = "generate_gcode" THEN "ExternalToolOutputMissing"
    ELSE "StorageWriteFailed"

\* process_stl returned: the entry is processed, the workbench released
TaskSucceed ==
    /\ UNCHANGED <<est, web, fav>>
    /\ pc = "returned"
    /\ entry' = [entry EXCEPT !.state = "processed"]
    /\ workbench' = Release
    /\ pc' = "done"
    /\ UNCHANGED <<queue_store, public_store, loc, calls, exc>>

\* TaskFail that leaves the entry as it is
TaskFail_NoMark ==
    /\ UNCHANGED <<est, web, fav>>
    /\ pc = "raised"
    /\ workbench' = Release
    /\ pc' = "done"
    /\ UNCHANGED <<entry, queue_store, public_store, loc, calls, exc>>

\* TaskFail that leaves the workbench directory behind
TaskFail_Leak ==
    /\ UNCHANGED <<est, web, fav>>
    /\ pc = "raised"
    /\ entry' = [entry EXCEPT !.state = "failed",
                              !.fail_error = FailKind(exc),
                              !.fail_metadata = exc.type]
    /\ pc' = "done"
    /\ UNCHANGED <<workbench, queue_store, public_store, loc, calls, exc>>

\* process_stl raised: the entry is failed with the error, the workbench
\* released
TaskFail ==
    /\ UNCHANGED <<est, web, fav>>
    /\ pc = "raised"
    /\ entry' = [entry EXCEPT !.state = "failed",
                              !.fail_error = FailKind(exc),
                              !.fail_metadata = exc.type]
    /\ workbench' = Release
    /\ pc' = "done"
    /\ UNCHANGED <<queue_store, public_store, loc, calls, exc>>

Next ==
    \/ TaskStart
    \/ Localize
    \/ LoadModel
    \/ \E k \in 1..Len(Shots) : Snap(k)
    \/ Slice
    \/ Estimate
    \/ CopyGcode
    \/ CopyOriginal
    \/ DeleteQueued
    \/ RecordFiles
    \/ MediaDataInit
    \/ TaskSucceed
    \/ TaskFail

Spec == Init /\ [][Next]_vars

\* the worker runs the task to its end
FairSpec == Spec /\ WF_vars(Next)

----------------------------------------------------------------------------
(* The estimator on its own: estimate() of each GCodeEstimator taken line  *)
(* by line over a toolpath drawn from Gcodes.                              *)

EstimatorInit ==
    /\ Unprocessed(CHOOSE f \in QueuedFiles : TRUE)
    /\ est \in {Estimators(gcode) : gcode \in Gcodes}
    /\ web = NoRequest
    /\ fav = NoFavorites

\* l.110-158: estimator r takes its next line
EstimateStep(r) ==
    /\ est.runs[r].status = "running"
    /\ est.runs[r].next <= Len(est.gcode)
    /\ est' = [est EXCEPT !.runs[r] = EstimateLine(@, est.gcode[@.next])]
    /\ UNCHANGED <<pc, entry, queue_store, public_store, workbench, loc, calls, exc, web, fav>>

\* l.160: the loop is over, estimate() returns (layercount, totalduration)
EstimateReturn(r) ==
    /\ est.runs[r].status = "running"
    /\ est.runs[r].next > Len(est.gcode)
    /\ est' = [est EXCEPT !.runs[r].status = "returned"]
    /\ UNCHANGED <<pc, entry, queue_store, public_store, workbench, loc, calls, exc, web, fav>>

EstimatorNext ==
    \E r \in EstimatorRuns :
        \/ EstimateStep(r)
        \/ EstimateReturn(r)

EstimatorSpec == EstimatorInit /\ [][EstimatorNext]_vars

----------------------------------------------------------------------------
(* The extension of the source on its own (l.260-264), over file names     *)
(* made of a stem and a suffix.                                            *)

Stems == { <<>>, <<"a">>, <<"c","d">>, <<"M","y",".","v","1">>,
           <<"p","a","r","t",".","o","b","j">>,
           <<"l","o","n","g","n","a","m","e">> }

Suffixes == { <<>>, <<".">>, <<".","g","z">>,
              <<".","s","t","l">>, <<".","S","T","L">>, <<".","O","b","j">>,
              <<".","s","t","e","p">>, <<".","X","3","D","B">>,
              <<".","g","c","o","d","e">>, <<"s","t","l">> }

Filenames == {stem \o suffix : stem \in Stems, suffix \in Suffixes}

ExtInit ==
    \E name \in Filenames :
        /\ pc = "ext"
        /\ entry = [state |-> "processing",
                    queued_media_file |-> name,
                    media_files |-> {},
                    media_data |-> {},
                    fail_error |-> "",
                    fail_metadata |-> "",
                    title |-> "model"]
        /\ queue_store = {name}
        /\ public_store = {}
        /\ workbench = [exists |-> TRUE, files |-> {[name |-> name, content |-> "source"]}]
        /\ loc = [InitLoc EXCEPT !.queued_filepath = name, !.queued_filename = name]
        /\ calls = <<>>
        /\ exc = [type |-> "", at |-> ""]
        /\ est = Estimators(<<>>)
        /\ web = NoRequest
        /\ fav = NoFavorites

\* l.260-264: ext is derived from the local file name
DeriveExt ==
    /\ pc = "ext"
    /\ loc' = [loc EXCEPT !.ext = ExtOf(loc.queued_filename)]
    /\ pc' = "ext_done"
    /\ UNCHANGED <<entry, queue_store, public_store, workbench, calls, exc, est, web, fav>>

ExtNext == DeriveExt

ExtSpec == ExtInit /\ [][ExtNext]_vars

----------------------------------------------------------------------------
(* media_confirm_delete (user_pages/views.py l.165-198) on a processed     *)
(* entry.  delete_media_files is not part of the sources at hand and is    *)
(* modelled from the specification: it deletes every file of media_files   *)
(* from the public store.                                                  *)

\* media_files of an entry processed from upload f, with or without previews
ProcessedFiles(f, previews) ==
    {[key |-> "original", path |-> Fill(f, ModelTemplate)],
     [key |-> "gcode",    path |-> Fill(f, GcodeTemplate)]}
    \cup (IF previews
          THEN {[key |-> Shots[k].key, path |-> Fill(f, Shots[k].template)] :
                    k \in 1..Len(Shots)}
          ELSE {})

Methods == {"GET", "POST"}

DeleteInit ==
    \E f \in QueuedFiles, previews \in BOOLEAN,
       method \in Methods, valid \in BOOLEAN, confirm \in BOOLEAN :
        /\ pc = "done"
        /\ entry = [state |-> "processed",
                    queued_media_file |-> <<>>,
                    media_files |-> ProcessedFiles(f, previews),
                    media_data |-> {},
                    fail_error |-> "",
                    fail_metadata |-> "",
                    title |-> "model"]
        /\ queue_store = {}
        /\ public_store = {m.path : m \in ProcessedFiles(f, previews)}
        /\ workbench = [exists |-> FALSE, files |-> {}]
        /\ loc = InitLoc
        /\ calls = <<>>
        /\ exc = [type |-> "", at |-> ""]
        /\ est = Estimators(<<>>)
        /\ web = [NoRequest EXCEPT !.method = method, !.valid = valid,
                                   !.confirm = confirm, !.pc = "view"]
        /\ fav = NoFavorites

\* media_confirm_delete with the call of l.177 left out: the entry is deleted,
\* its files are not
MediaConfirmDelete_KeepsFiles ==
    /\ web.pc = "view"
    /\ web' = IF web.method = "POST" /\ web.valid
              THEN IF web.confirm
                   THEN [web EXCEPT !.pc = "delete_files", !.todo = {}]
                   ELSE [web EXCEPT !.pc = "responded", !.response = "found"]
              ELSE [web EXCEPT !.pc = "responded", !.response = "form"]
    /\ UNCHANGED <<pc, entry, queue_store, public_store, workbench, loc, calls, exc, est, fav>>

\* l.169-198: the form is bound to the request; a valid POST with confirm
\* set goes on to the deletion, a valid POST without it is sent back to the
\* media page, any other request gets the form
MediaConfirmDelete ==
    /\ web.pc = "view"
    /\ web' = IF web.method = "POST" /\ web.valid
              THEN IF web.confirm
                   THEN [web EXCEPT !.pc = "delete_files",
                                    !.todo = {m.path : m \in entry.media_files}]
                   ELSE [web EXCEPT !.pc = "responded", !.response = "found"]
              ELSE [web EXCEPT !.pc = "responded", !.response = "form"]
    /\ UNCHANGED <<pc, entry, queue_store, public_store, workbench, loc, calls, exc, est, fav>>

\* l.177, delete_media_files: one more file of the entry is deleted from the
\* public store, or the store raises and the request ends in an error
DeleteMediaFile ==
    /\ web.pc = "delete_files"
    /\ \E path \in web.todo, deleted \in BOOLEAN :
          IF deleted
          THEN /\ public_store' = public_store \ {path}
               /\ web' = [web EXCEPT !.todo = @ \ {path}]
          ELSE /\ web' = [web EXCEPT !.pc = "responded", !.response = "error"]
               /\ UNCHANGED public_store
    /\ UNCHANGED <<pc, entry, queue_store, workbench, loc, calls, exc, est, fav>>

\* l.179-182: media.delete(), then the redirect to the user's page
MediaDelete ==
    /\ web.pc = "delete_files"
    /\ web.todo = {}
    /\ web' = [web EXCEPT !.in_db = FALSE, !.pc = "responded", !.response = "redirect"]
    /\ UNCHANGED <<pc, entry, queue_store, public_store, workbench, loc, calls, exc, est, fav>>

DeleteNext ==
    \/ MediaConfirmDelete
    \/ DeleteMediaFile
    \/ MediaDelete

DeleteSpec == DeleteInit /\ [][DeleteNext]_vars

----------------------------------------------------------------------------
(* media_favorite (user_pages/views.py l.200-232) on a processed entry:     *)
(* requests of logged-in users, each stepped through its calls of the       *)
(* database, in any interleaving.  The user_favorites collection            *)
(* (db/models.py l.346-367) has no unique index.                            *)

Users == {"alice", "bob"}

\* the number of requests to media_favorite
MaxRequests == 3

Requests == 1..MaxRequests

\* a document of user_favorites for the entry (db/models.py l.357-360), with
\* the _id the database gives it
UserFavorite(id, user) == [id |-> id, user |-> user]

\* find_one found nothing: None
NoDocument == UserFavorite(0, "")

\* the _id of the favorite a user holds before the requests
FirstId == CHOOSE ids \in [Users -> 1..Cardinality(Users)] :
               \A u, v \in Users : ids[u] = ids[v] => u = v

\* some users hold the entry as a favorite and its counter says how many;
\* each request is by a logged-in user and has yet to start
FavoriteInit ==
    \E f \in QueuedFiles, favored \in SUBSET Users, user \in [Requests -> Users] :
        /\ pc = "done"
        /\ entry = [state |-> "processed",
                    queued_media_file |-> <<>>,
                    media_files |-> ProcessedFiles(f, TRUE),
                    media_data |-> {},
                    fail_error |-> "",
                    fail_metadata |-> "",
                    title |-> "model"]
        /\ queue_store = {}
        /\ public_store = {m.path : m \in ProcessedFiles(f, TRUE)}
        /\ workbench = [exists |-> FALSE, files |-> {}]
        /\ loc = InitLoc
        /\ calls = <<>>
        /\ exc = [type |-> "", at |-> ""]
        /\ est = Estimators(<<>>)
        /\ web = NoRequest
        /\ fav = [user_favorites |-> {UserFavorite(FirstId[u], u) : u \in favored},
                  favorites |-> Cardinality(favored),
                  next_id |-> Cardinality(Users) + 1,
                  requests |-> [r \in Requests |->
                                  [user |-> user[r], pc |-> "start",
                                   existing_entry |-> NoDocument]]]

\* l.206-212: the entry is looked up, then a favorite of this user for it:
\* find_one gives one of the matching documents, None if there is none
FindExisting(r) ==
    /\ fav.requests[r].pc = "start"
    /\ LET mine == {d \in fav.user_favorites : d.user = fav.requests[r].user}
       IN  \E found \in (IF mine = {} THEN {NoDocument} ELSE mine) :
              fav' = [fav EXCEPT !.requests[r].existing_entry = found,
                                 !.requests[r].pc = "found"]
    /\ UNCHANGED <<pc, entry, queue_store, public_store, workbench, loc, calls, exc, est, web>>

\* l.216-220: not a favorite yet: a new UserFavorite is saved
SaveFavorite(r) ==
    /\ fav.requests[r].pc = "found"
    /\ fav.requests[r].existing_entry = NoDocument
    /\ fav' = [fav EXCEPT
                 !.user_favorites = @ \cup {UserFavorite(fav.next_id, fav.requests[r].user)},
                 !.next_id = @ + 1,
                 !.requests[r].pc = "saved"]
    /\ UNCHANGED <<pc, entry, queue_store, public_store, workbench, loc, calls, exc, est, web>>

\* l.222, l.230-232: the entry's counter is incremented in the database,
\* the request is redirected to the media page
IncFavorites(r) ==
    /\ fav.requests[r].pc = "saved"
    /\ fav' = [fav EXCEPT !.favorites = @ + 1, !.requests[r].pc = "responded"]
    /\ UNCHANGED <<pc, entry, queue_store, public_store, workbench, loc, calls, exc, est, web>>

\* l.226: a favorite already: the document found is deleted, which does
\* nothing if it is gone by now
DeleteExisting(r) ==
    /\ fav.requests[r].pc = "found"
    /\ fav.requests[r].existing_entry # NoDocument
    /\ fav' = [fav EXCEPT !.user_favorites = @ \ {fav.requests[r].existing_entry},
                          !.requests[r].pc = "deleted"]
    /\ UNCHANGED <<pc, entry, queue_store, public_store, workbench, loc, calls, exc, est, web>>

\* l.228, l.230-232: the entry's counter is decremented in the database,
\* the request is redirected to the media page
DecFavorites(r) ==
    /\ fav.requests[r].pc = "deleted"
    /\ fav' = [fav EXCEPT !.favorites = @ - 1, !.requests[r].pc = "responded"]
    /\ UNCHANGED <<pc, entry, queue_store, public_store, workbench, loc, calls, exc, est, web>>

FavoriteNext ==
    \E r \in Requests :
        \/ FindExisting(r)
        \/ SaveFavorite(r)
        \/ IncFavorites(r)
        \/ DeleteExisting(r)
        \/ DecFavorites(r)

FavoriteSpec == FavoriteInit /\ [][FavoriteNext]_vars

----------------------------------------------------------------------------
(* What a run has done, read off the entry and the history of calls.       *)

\* the keys present in the entry's media_files
Keys == {m.key : m \in entry.media_files}

SevenKeys == {"original", "gcode"} \cup PreviewKeys

SomeCall(P(_)) == \E i \in 1..Len(calls) : P(calls[i])
EveryCall(P(_)) == \A i \in 1..Len(calls) : P(calls[i])

\* the name of the upload, which the entry holds until l.367 and the locals
\* hold from l.255 on
Upload == IF loc.queued_filepath # <<>> THEN loc.queued_filepath
          ELSE entry.queued_media_file

PreviewFiles == {Fill(Upload, Shots[k].template) : k \in 1..Len(Shots)}
GcodeFile == Fill(Upload, GcodeTemplate)
OriginalFile == Fill(Upload, ModelTemplate)

IsPreviewCall(c) ==
    c.op = "render" \/ (c.op = "put" /\ c.arg \in PreviewFiles)

\* a shot of the preview batch raised
ShotRaised == SomeCall(LAMBDA c : IsPreviewCall(c) /\ ~c.ok)

\* shot k went through: rendered and stored
ShotStored(k) ==
    SomeCall(LAMBDA c : c.op = "put" /\ c.arg = Fill(Upload, Shots[k].template) /\ c.ok)

AllShotsStored == \A k \in 1..Len(Shots) : ShotStored(k)

\* the Geometry Loader raised
LoaderRaised == SomeCall(LAMBDA c : c.op = "auto_detect" /\ ~c.ok)

\* the slicer subprocess could not be launched or ended with a non-zero status
SlicerCrashed == SomeCall(LAMBDA c : c.op = "slicer" /\ c.status # 0)

SlicerCalled == SomeCall(LAMBDA c : c.op = "slicer")
EstimatorCalled == SomeCall(LAMBDA c : c.op = "estimate")

\* the estimator raised: the toolpath is missing or malformed
EstimatorRaised == SomeCall(LAMBDA c : c.op = "estimate" /\ ~c.ok)

\* a write of the toolpath or of the original to public storage raised
WriteRaised ==
    SomeCall(LAMBDA c : c.op = "put" /\ c.arg \notin PreviewFiles /\ ~c.ok)

\* nothing went wrong outside the preview batch
NoFaultOutsideBatch ==
    EveryCall(LAMBDA c : IsPreviewCall(c) \/ (c.ok /\ c.status = 0))

\* nothing went wrong at all, and the run is over
HappyRun ==
    /\ pc = "done"
    /\ EveryCall(LAMBDA c : c.ok /\ c.status = 0)

RunEnded == pc = "done"

----------------------------------------------------------------------------
(* Claims.                                                                 *)

\* C1: preview batch atomicity.  Once a shot of the batch has raised, at
\* whichever of the five positions, none of the five preview keys is ever
\* in media_files and the metadata, once written, has blender_thumbs false;
\* a run in which all five shots were stored and process_stl returned has
\* all five keys, each on its own shot's file, and blender_thumbs true.
C1_PreviewBatchAtomic ==
    /\ ShotRaised =>
          /\ Keys \cap PreviewKeys = {}
          /\ \A d \in entry.media_data : d.blender_thumbs = FALSE
          /\ pc = "returned" => entry.media_data # {}
    /\ (AllShotsStored /\ pc \in {"returned", "done"} /\ exc.type = "") =>
          /\ \A k \in 1..Len(Shots) :
                [key |-> Shots[k].key, path |-> Fill(Upload, Shots[k].template)]
                    \in entry.media_files
          /\ entry.media_data # {}
          /\ \A d \in entry.media_data : d.blender_thumbs = TRUE

\* the third shot raised after two were stored, and the run went to its end
C1_Witness ==
    /\ RunEnded
    /\ entry.state = "processed"
    /\ ShotRaised
    /\ loc.shot = 3
    /\ ShotStored(1) /\ ShotStored(2)
    /\ entry.media_data # {}

\* C2 (as claimed): after a run whose preview batch failed, no preview image
\* of that batch is left in public storage.
C2_PartialPreviewsDiscarded ==
    (RunEnded /\ ShotRaised) => PreviewFiles \cap public_store = {}

\* C3 (as claimed): a run with an induced fatal failure (loader raising,
\* slicer failing, toolpath missing, estimator raising, a write of the
\* toolpath or the original failing) ends failed with fail_error and
\* fail_metadata set, and these are set in no other outcome.
C3_FatalFailuresEndFailed ==
    /\ (RunEnded /\ (LoaderRaised \/ SlicerCrashed \/ EstimatorRaised \/ WriteRaised)) =>
          /\ entry.state = "failed"
          /\ entry.fail_error # ""
          /\ entry.fail_metadata # ""
    /\ (entry.fail_error # "" \/ entry.fail_metadata # "") => entry.state = "failed"

C6_HappyPath ==
    HappyRun =>
        /\ entry.state = "processed"
        /\ Keys = SevenKeys
        /\ Cardinality(entry.media_files) = Cardinality(SevenKeys)
        /\ \A m \in entry.media_files : m.path \in public_store
        /\ [key |-> "original", path |-> OriginalFile] \in entry.media_files
        /\ [key |-> "gcode", path |-> GcodeFile] \in entry.media_files
        /\ entry.queued_media_file = <<>>
        /\ entry.media_data # {}
        /\ \A d \in entry.media_data : d.blender_thumbs = TRUE

C6_Witness ==
    /\ HappyRun
    /\ entry.state = "processed"
    /\ Keys = SevenKeys

C8_BatchFailureDoesNotAbort ==
    /\ [](  (RunEnded /\ ShotRaised /\ NoFaultOutsideBatch) =>
              /\ entry.state = "processed"
              /\ SlicerCalled /\ EstimatorCalled
              /\ entry.media_files =
                    {[key |-> "original", path |-> OriginalFile],
                     [key |-> "gcode", path |-> GcodeFile]}
              /\ {OriginalFile, GcodeFile} \subseteq public_store
              /\ queue_store = {}
              /\ entry.queued_media_file = <<>>
              /\ entry.media_data # {}
              /\ \A d \in entry.media_data :
                    /\ d.blender_thumbs = FALSE
                    /\ d.layer_count = loc.layer_count
                    /\ d.total_duration = loc.total_duration )
    /\ ShotRaised ~> SlicerCalled

\* the first shot raised and the run still ended processed
C8_Witness ==
    /\ RunEnded
    /\ ShotRaised
    /\ loc.shot = 1
    /\ NoFaultOutsideBatch
    /\ entry.state = "processed"

\* C9 (as claimed): a run whose slicer crashed, whose toolpath is missing or
\* whose estimator raised ends failed, with no gcode key and no metadata;
\* no run whose slicer crashed ends processed with total_duration 0.
C9_SlicingFailureFatal ==
    (RunEnded /\ (SlicerCrashed \/ EstimatorRaised)) =>
        /\ entry.state = "failed"
        /\ "gcode" \notin Keys
        /\ entry.media_data = {}

\* C10: once the Geometry Loader has raised, no renderer, slicer or
\* estimator is invoked, nothing is written to public storage, the queued
\* file stays in the queue, and media_files, media_data and
\* queued_media_file are as they were before the run.
C10_LoaderFailureStops ==
    LoaderRaised =>
        /\ EveryCall(LAMBDA c : c.op \in {"localize", "auto_detect"})
        /\ public_store = {}
        /\ entry.queued_media_file \in QueuedFiles
        /\ queue_store = {entry.queued_media_file}
        /\ entry.media_files = {}
        /\ entry.media_data = {}
        /\ pc \in {"raised", "done"}

C10_Witness ==
    /\ RunEnded
    /\ LoaderRaised
    /\ entry.state = "failed"
    /\ entry.fail_error = "GeometryLoadFailed"

\* media_data holds blender_thumbs == True
ThumbsFlag == \E d \in entry.media_data : d.blender_thumbs

\* media_data_init raised (l.395)
MetadataWriteRaised == SomeCall(LAMBDA c : c.op = "media_data_init" /\ ~c.ok)

\* the queued file was deleted from the queue store (l.366)
QueuedDeleted == SomeCall(LAMBDA c : c.op = "delete" /\ c.ok)

\* C11 (as claimed): in every reachable state, media_data holds
\* blender_thumbs == True exactly when all five preview keys are in
\* media_files, and media_files never holds some but not all of the five.
C11_ThumbsFlagIffFiveKeys ==
    /\ ThumbsFlag <=> PreviewKeys \subseteq Keys
    /\ Keys \cap PreviewKeys \in {{}, PreviewKeys}

\* C12: once the entry has left unprocessed, exactly one of
\* queued_media_file and media_files['original'] is present: never both
\* absent, never both present.
C12_QueuedXorOriginal ==
    entry.state # "unprocessed" =>
        ((entry.queued_media_file # <<>>) <=> ("original" \notin Keys))

\* C12 witness: a run ended processed with the reference to the queued file
\* cleared and the original recorded.
C12_Witness ==
    /\ RunEnded
    /\ entry.state = "processed"
    /\ entry.queued_media_file = <<>>
    /\ "original" \in Keys

\* C13: the queued file is deleted only after the copy of the original to
\* public storage went through, so that in every state, whatever has failed,
\* the upload is in the queue store or in the public store.
C13_UploadNeverLost ==
    /\ Upload \in queue_store \/ OriginalFile \in public_store
    /\ \A i \in 1..Len(calls) :
          calls[i].op = "delete" =>
              \E j \in 1..(i - 1) : calls[j] = Call("put", OriginalFile, 0, TRUE)

\* C13 witness: a run ended with the queued file deleted and the original
\* in the public store.
C13_Witness ==
    /\ RunEnded
    /\ QueuedDeleted
    /\ Upload \notin queue_store
    /\ OriginalFile \in public_store

\* C14 (as claimed): a run that fails, at whichever step, ends with
\* queued_media_file still set and the queued file still in the queue store.
C14_FailedRunKeepsQueuedFile ==
    (RunEnded /\ entry.state = "failed") =>
        /\ entry.queued_media_file # <<>>
        /\ Upload \in queue_store

\* C15 (as claimed): when a run has ended, media_files holds the gcode key
\* exactly when media_data holds the layer count and the duration that run
\* computed.
C15_ToolpathAndMetadataTogether ==
    RunEnded =>
        ( "gcode" \in Keys <=>
            \E d \in entry.media_data :
                /\ d.layer_count = loc.layer_count
                /\ d.total_duration = loc.total_duration )

\* the artifact a media_files key stands for
FileOfKey(key) ==
    IF key = "original" THEN OriginalFile
    ELSE IF key = "gcode" THEN GcodeFile
    ELSE Fill(Upload, Shots[CHOOSE k \in 1..Len(Shots) : Shots[k].key = key].template)

\* the keys whose artifact's write to public storage was confirmed
ConfirmedKeys ==
    {key \in SevenKeys :
        SomeCall(LAMBDA c : c.op = "put" /\ c.arg = FileOfKey(key) /\ c.ok)}

\* C16 (as claimed): after a storage write failure, media_files holds
\* exactly the keys of the writes confirmed before the failure.
C16_MapHoldsConfirmedWrites ==
    WriteRaised => Keys = ConfirmedKeys

\* C16 (amended): every entry of media_files refers to an artifact whose
\* write to public storage was confirmed and which is still there; the keys
\* are recorded only once every write has gone through, so a run in which a
\* write of the toolpath or of the original failed ends with no key
\* recorded, while every artifact written before the failure stays in the
\* public store.
C16_MapHoldsOnlyConfirmedWrites ==
    /\ \A m \in entry.media_files :
          /\ m.key \in ConfirmedKeys
          /\ m.path = FileOfKey(m.key)
          /\ m.path \in public_store
    /\ WriteRaised => Keys = {}
    /\ \A key \in ConfirmedKeys : FileOfKey(key) \in public_store

\* C16 witness: the write of the original failed after the toolpath was
\* stored: no key is recorded and the toolpath stays in the public store.
C16_Witness ==
    /\ WriteRaised
    /\ "gcode" \in ConfirmedKeys
    /\ GcodeFile \in public_store
    /\ Keys = {}

\* the slicer subprocess was launched (l.176-235)
SlicerRan == SomeCall(LAMBDA c : c.op = "slicer" /\ c.status # -1)

\* slicer() returned its pair (l.244)
SlicerReturned == SomeCall(LAMBDA c : c.op = "slicer" /\ c.ok)

\* the lines of the slicer's output that hold "Filament required"
MatchingLines(stdout) ==
    SelectSeq(stdout, LAMBDA line : Contains(FilamentRequired, RStrip(line)))

\* C17 (as claimed): when the slicer's output holds several lines with
\* "Filament required", slicer() returns the values of the first of them.
C17_FirstMatchingLineWins ==
    (SlicerReturned /\ MatchingLines(loc.stdout) # <<>>) =>
        LET first == SlicerResult(<<Head(MatchingLines(loc.stdout))>>)
        IN  /\ loc.filament_length = first.filament_length
            /\ loc.plastic_volume = first.plastic_volume

\* lengths and volumes a slicer may print
PrintedNumbers ==
    { <<"1","2","3",".","4","5">>, <<"4",".","5","6">>, <<"7",".","0">>, <<"0",".","1">> }

\* C18: when the one matching line of the slicer's output reads
\* "Filament required: <L>mm (<V>cm3)", slicer() returns the texts L and V;
\* when no line matches, it returns the integers (0, 0) and raises nothing.
C18_SlicerOutputParsed ==
    /\ (SlicerRan /\ MatchingLines(loc.stdout) = <<>>) =>
          /\ SlicerReturned
          /\ loc.filament_length = [type |-> "int", text |-> <<"0">>]
          /\ loc.plastic_volume = [type |-> "int", text |-> <<"0">>]
    /\ \A L \in PrintedNumbers, V \in PrintedNumbers :
          (SlicerRan /\ MatchingLines(loc.stdout) = <<FilamentLine(L, V)>>) =>
              /\ SlicerReturned
              /\ loc.filament_length = [type |-> "str", text |-> L]
              /\ loc.plastic_volume = [type |-> "str", text |-> V]

\* C18 witness: the slicer printed one matching line, for 123.45 mm and
\* 4.56 cm3, and slicer() returned these two texts.
C18_Witness ==
    /\ SlicerReturned
    /\ Len(loc.stdout) > 1
    /\ MatchingLines(loc.stdout) =
           <<FilamentLine(<<"1","2","3",".","4","5">>, <<"4",".","5","6">>)>>
    /\ loc.filament_length.text = <<"1","2","3",".","4","5">>
    /\ loc.plastic_volume.text = <<"4",".","5","6">>

\* C19: a shot's render is successful, and the shot goes on to the storage
\* write, exactly when its output file is in the workbench once the renderer
\* is back, whatever its exit status; a shot whose output file is absent
\* raises, is the last shot attempted and makes the batch fail.
C19_RenderSuccessIsOutputFile ==
    \A i \in 1..Len(calls) :
        calls[i].op = "render" =>
            /\ workbench.exists => (calls[i].ok <=> ExistsInWorkbench(calls[i].arg))
            /\ calls[i].ok =>
                  /\ i < Len(calls)
                  /\ calls[i + 1].op = "put"
                  /\ calls[i + 1].arg = calls[i].arg
            /\ ~calls[i].ok =>
                  /\ ~loc.blender_thumbs
                  /\ \A j \in (i + 1)..Len(calls) : ~IsPreviewCall(calls[j])

\* C19 witness: a renderer ended with status 1 and left its output file;
\* the shot is successful and so is the batch of five.
C19_Witness ==
    /\ pc = "slice"
    /\ loc.blender_thumbs
    /\ AllShotsStored
    /\ \E i \in 1..Len(calls) :
          /\ calls[i].op = "render"
          /\ calls[i].status = 1
          /\ calls[i].ok
          /\ ExistsInWorkbench(calls[i].arg)

\* the Z word of a G1 instruction, if it has one: the words of the line up
\* to its comment, the first of them G1
IsG1(line) == StripComment(line) # <<>> /\ Head(StripComment(line)) = [letter |-> "G", value |-> 1]
ZWords(line) == SelectSeq(StripComment(line), LAMBDA w : w.letter = "Z")

\* the number of G1 instructions of a toolpath that take z above the z
\* reached before them, z being zfrom at the start
RECURSIVE ZRises(_, _)
ZRises(gcode, zfrom) ==
    IF gcode = <<>> THEN 0
    ELSE LET line == Head(gcode)
             zto == IF IsG1(line) /\ ZWords(line) # <<>>
                    THEN Head(ZWords(line)).value
                    ELSE zfrom
         IN  (IF zto > zfrom THEN 1 ELSE 0) + ZRises(Tail(gcode), zto)

\* C20: as long as estimate() has not raised, its layercount is the number
\* of G1 instructions, among the lines taken so far, whose z is strictly
\* above the z tracked before them; so it returns 0 for a toolpath none of
\* whose G1 moves raises z, whatever dwells and other lines it holds.
C20_LayerCountIsZRises ==
    \A r \in EstimatorRuns :
        est.runs[r].status # "raised" =>
            /\ est.runs[r].layercount =
                  ZRises(SubSeq(est.gcode, 1, est.runs[r].next - 1), 0)
            /\ (est.runs[r].status = "returned" /\ ZRises(est.gcode, 0) = 0) =>
                  est.runs[r].layercount = 0

\* C20 witness: estimate() returned 2 for a toolpath of three lines with a
\* dwell between two moves that raise z.
C20_Witness ==
    \E r \in EstimatorRuns :
        /\ est.runs[r].status = "returned"
        /\ est.runs[r].layercount = 2
        /\ Len(est.gcode) = 3
        /\ est.gcode[2] = <<[letter |-> "G", value |-> 4], [letter |-> "P", value |-> 500]>>

\* the extension as the claim has it: the lower-cased text after the last
\* dot of the name when it is 3 or 4 characters long, None otherwise
ExtAfterLastDot(name) ==
    LET after == SubSeq(name, LastDot(name) + 1, Len(name))
    IN  IF LastDot(name) > 0 /\ Len(after) \in {3, 4} THEN Lower(after) ELSE None

ConfirmedDelete == web.method = "POST" /\ web.valid /\ web.confirm

\* C23: the entry is deleted only on a confirmed delete, and only once every
\* file of media_files is gone from the public store; on any other request
\* the entry and all its files stay.
C23_DeleteRemovesFilesFirst ==
    /\ ~web.in_db =>
          /\ ConfirmedDelete
          /\ \A m \in entry.media_files : m.path \notin public_store
    /\ (web.pc # "none" /\ ~ConfirmedDelete) =>
          /\ web.in_db
          /\ \A m \in entry.media_files : m.path \in public_store

\* C23 witness: a confirmed delete of an entry with its seven files ended:
\* the files are gone and so is the entry.
C23_Witness ==
    /\ ConfirmedDelete
    /\ web.response = "redirect"
    /\ ~web.in_db
    /\ Keys = SevenKeys
    /\ public_store = {}

\* the renderer's calls so far, in order
Renders == SelectSeq(calls, LAMBDA c : c.op = "render")

\* the output files of the five shots in the order thumbnail, perspective,
\* top, front, side
ShotOrder ==
    << Fill(Upload, ThumbTemplate), Fill(Upload, PerspectiveTemplate),
       Fill(Upload, TopTemplate), Fill(Upload, FrontTemplate),
       Fill(Upload, SideTemplate) >>

\* the preview batch was over before call i, the shots' files being
\* `order`: a shot had raised, or all five were stored
BatchOverBefore(i, order) ==
    \/ \E j \in 1..(i - 1) :
          /\ calls[j].op \in {"render", "put"}
          /\ \E k \in 1..Len(order) : calls[j].arg = order[k]
          /\ ~calls[j].ok
    \/ \A k \in 1..Len(order) :
          \E j \in 1..(i - 1) : calls[j] = Call("put", order[k], 0, TRUE)

\* the entry has been written to by process_stl
EntryMutated ==
    entry.queued_media_file = <<>> \/ entry.media_files # {} \/ entry.media_data # {}

\* C24: the shots are attempted in the order thumbnail, perspective, top,
\* front, side; the slicer is called only once the preview batch is over,
\* and no shot is attempted after it; the original is copied to the public
\* store only after the toolpath was estimated and then copied; the entry is
\* written to only after the original was copied.
C24_StepsInOrder ==
    LET renders == Renders
        order == ShotOrder
        original == OriginalFile
        toolpath == GcodeFile
        IsShot(c) == \/ c.op = "render"
                     \/ c.op = "put" /\ \E k \in 1..Len(order) : c.arg = order[k]
    IN  /\ Len(renders) <= Len(order)
        /\ \A i \in 1..Len(renders) : renders[i].arg = order[i]
        /\ \A i \in 1..Len(calls) :
              /\ calls[i].op = "slicer" =>
                    /\ BatchOverBefore(i, order)
                    /\ \A j \in (i + 1)..Len(calls) : ~IsShot(calls[j])
              /\ (calls[i].op = "put" /\ calls[i].arg = original) =>
                    \E j \in 1..(i - 1), k \in 1..(i - 1) :
                        /\ j < k
                        /\ calls[j].op = "estimate" /\ calls[j].ok
                        /\ calls[k] = Call("put", toolpath, 0, TRUE)
        /\ EntryMutated =>
              \E i \in 1..Len(calls) : calls[i] = Call("put", original, 0, TRUE)

\* C24 witness: a run in which every step was taken: five shots, the
\* slicer, the estimator, both copies and the writes to the entry.
C24_Witness ==
    /\ pc = "returned"
    /\ Len(Renders) = 5
    /\ AllShotsStored
    /\ SlicerCalled
    /\ EstimatorCalled
    /\ EntryMutated

\* the writes to the public store so far, in order, failed ones included
Puts == SelectSeq(calls, LAMBDA c : c.op = "put")

\* the public-store locations of the seven artifacts of this run
ArtifactFiles == PreviewFiles \cup {GcodeFile, OriginalFile}

\* C25: within a run every write to the public store goes to the location
\* of one of the seven artifacts, the seven locations are pairwise distinct,
\* and no location is written twice.
C25_EachArtifactWrittenOnce ==
    LET puts == Puts
        files == ArtifactFiles
    IN  /\ Cardinality(files) = 7
        /\ \A i \in 1..Len(puts) : puts[i].arg \in files
        /\ \A i, j \in 1..Len(puts) : i # j => puts[i].arg # puts[j].arg

\* C25 witness: a finished run that wrote all seven artifacts.
C25_Witness ==
    /\ pc = "returned"
    /\ Len(Puts) = 7
    /\ \A i \in 1..Len(Puts) : Puts[i].ok

\* estimator r is about to take a line
Stepping(r) ==
    est.runs[r].status = "running" /\ est.runs[r].next <= Len(est.gcode)

\* the line estimator r is about to take, without its comment
LineOf(r) == StripComment(est.gcode[est.runs[r].next])

\* the line is a dwell and not a move: it has a word G4 and no word G1
IsDwell(i) ==
    /\ \E k \in 1..Len(i) : i[k] = Word("G", 4)
    /\ \A k \in 1..Len(i) : i[k] # Word("G", 1)

\* the places of the words P after the first word of the line
PWords(i) == {k \in 2..Len(i) : i[k].letter = "P"}

\* the position, the feed rate and the layers an estimator tracks
Tracked(st) ==
    << st.x, st.y, st.z, st.e, st.f,
       st.lastx, st.lasty, st.lastz, st.laste, st.lastf,
       st.layercount, st.layerbeginduration >>

\* C26: a step of estimate() over a G4 line with a P parameter adds P/1000
\* to totalduration and leaves x, y, z, e, f and layercount as they were; a
\* G4 line without P leaves totalduration, x, y, z, e, f and layercount as
\* they were.
C26_DwellAddsPMillis ==
    [][\A r \in EstimatorRuns :
         (Stepping(r) /\ est'.runs[r] # est.runs[r] /\ IsDwell(LineOf(r))) =>
            /\ est'.runs[r].status = "running"
            /\ Tracked(est'.runs[r]) = Tracked(est.runs[r])
            /\ est'.runs[r].totalduration =
                    IF PWords(LineOf(r)) = {}
                    THEN est.runs[r].totalduration
                    ELSE RAdd(est.runs[r].totalduration,
                              RNorm(LineOf(r)[CHOOSE k \in PWords(LineOf(r)) :
                                                \A j \in PWords(LineOf(r)) : k <= j].value,
                                    1000))]_vars

\* C26 witness: estimate() returned on a dwell of 500 ms followed by a dwell
\* without P: half a second, no layer.
C26_Witness ==
    /\ est.gcode = << <<Word("G", 4), Word("P", 500)>>, <<Word("G", 4), Word("S", 2)>> >>
    /\ est.runs["first"].status = "returned"
    /\ est.runs["first"].totalduration = RNorm(1, 2)
    /\ est.runs["first"].layercount = 0

\* the line is a move and not a dwell: it has a word G1 and no word G4
IsG1Only(i) ==
    /\ \E k \in 1..Len(i) : i[k] = Word("G", 1)
    /\ \A k \in 1..Len(i) : i[k] # Word("G", 4)

\* the duration a move contributes by the rule of the two branches, from the
\* previous feed rate, the new feed rate and the travel
MoveDuration(f_prev, f_new, t) ==
    LET d == RDiv(RMul(RAdd(f_prev, f_new), RSub(f_new, f_prev)), R(1500))
    IN  IF RLe(d, t) /\ RAdd(f_prev, f_new) # R(0) /\ f_new # R(0)
        THEN RAdd(RDiv(RMul(R(2), d), RAdd(f_prev, f_new)), RDiv(RSub(t, d), f_new))
        ELSE RSqrt(RDiv(RMul(R(2), d), R(1500)))

\* the travel of a step: from where the estimator was to where it is
TravelOf(before, after) ==
    hypot3d(after.x, after.y, after.z, before.lastx, before.lasty, before.lastz)

\* C27: a G1 step of estimate() that does not raise adds to totalduration
\* the duration of the two-branch rule, for the feed rate before the line,
\* the feed rate after it and the travel; the line G1 X10 F600 taken from
\* rest adds 2*(1/15)/10 + (10 - 1/15)/10 = 151/150 seconds.
C27_MoveDurationByRule ==
    [][\A r \in EstimatorRuns :
         (/\ Stepping(r)
          /\ est'.runs[r] # est.runs[r]
          /\ IsG1Only(LineOf(r))
          /\ est'.runs[r].status = "running") =>
            /\ est'.runs[r].totalduration =
                    RAdd(est.runs[r].totalduration,
                         MoveDuration(est.runs[r].lastf, est'.runs[r].f,
                                      TravelOf(est.runs[r], est'.runs[r])))
            /\ (/\ est.runs[r] = EstimateStart
                 /\ LineOf(r) = <<Word("G", 1), Word("X", 10), Word("F", 600)>>) =>
                    est'.runs[r].totalduration = RNorm(151, 150)]_vars

\* C27 witness: estimate() returned on the single line G1 X10 F600 with
\* 151/150 seconds.
C27_Witness ==
    /\ est.gcode = << <<Word("G", 1), Word("X", 10), Word("F", 600)>> >>
    /\ est.runs["first"].status = "returned"
    /\ est.runs["first"].f = R(10)
    /\ est.runs["first"].totalduration = RNorm(151, 150)

ShotFailed(k) ==
    LET file == ShotOrder[k]
    IN  \E i \in 1..Len(calls) :
            calls[i].op \in {"render", "put"} /\ calls[i].arg = file /\ ~calls[i].ok

\* C29: the renderer is called for a shot only if every shot before it was
\* rendered and stored, and once shot k has raised the renderer has been
\* called k times and is never called again in the run.
C29_NoShotAfterFailure ==
    LET renders == Renders
        order == ShotOrder
        n == Len(renders)
    IN  /\ \A k \in 1..(n - 1) :
              /\ renders[k].ok
              /\ \E i \in 1..Len(calls) : calls[i] = Call("put", order[k], 0, TRUE)
        /\ \A k \in 1..Len(order) :
              (\E i \in 1..Len(calls) :
                  /\ calls[i].op \in {"render", "put"}
                  /\ calls[i].arg = order[k]
                  /\ ~calls[i].ok) => n = k

\* C29 witness: a run that ended after its third shot raised, with three
\* calls of the renderer.
C29_Witness ==
    /\ pc = "returned"
    /\ ShotFailed(3)
    /\ Len(Renders) = 3

\* every line of the toolpath is a G1 or a G4 instruction
OnlyMovesAndDwells ==
    \A n \in 1..Len(est.gcode) :
        \E k \in 1..Len(est.gcode[n]) : est.gcode[n][k] \in {Word("G", 1), Word("G", 4)}

\* C30: on a toolpath of G1 and G4 instructions with feed rates of zero or
\* more, no run of estimate() raises: math.sqrt at l.145 is never given a
\* negative number.
C30_EstimateNeverRaises ==
    OnlyMovesAndDwells => \A r \in EstimatorRuns : est.runs[r].status # "raised"

\* no request to media_favorite is between its first and its last call of
\* the database
NoFavoriteInFlight ==
    \A r \in DOMAIN fav.requests : fav.requests[r].pc \in {"start", "responded"}

\* C31: whenever no media_favorite request is under way, the entry's
\* favorites counter is the number of UserFavorite documents for the entry,
\* no user has two of them, and the counter is not negative.
C31_FavoritesCounterMatches ==
    NoFavoriteInFlight =>
        /\ fav.favorites = Cardinality(fav.user_favorites)
        /\ \A d, e \in fav.user_favorites : d.user = e.user => d = e
        /\ fav.favorites >= 0
====
